---- MODULE Spec2Model ----
(***************************************************************************)
(* The sampler of src/code/sampler/sampler.rs: a MIDI pass-through that    *)
(* records a clip and replays it in a loop.                                *)
(*                                                                         *)
(* Three execution contexts are modelled: the input callback (one message  *)
(* at a time), the immediate (pass-through) thread and the sample          *)
(* (playback) thread.  Each atomic access to shared data (the session      *)
(* mutex, the generation counter, the two channels, the loop sink) is one  *)
(* step.                                                                   *)
(*                                                                         *)
(* Time.  The code never uses an Instant except through a difference       *)
(* (duration_since, elapsed, target_time - now), so an Instant is held as  *)
(* the number of milliseconds elapsed since it: Instant::now() is 0 and    *)
(* Tick(d) adds d to every Instant that is alive.  Durations (offsets,     *)
(* remaining) are plain numbers of milliseconds.  An elapsed time that     *)
(* reaches Horizon stays there; every quantity the code compares it with   *)
(* is below Horizon (a message reaches handle_normal_event before the      *)
(* recording it belongs to is Horizon ms old).                             *)
(*                                                                         *)
(* Initial states.  Either the session SamplerState::new() builds, or the  *)
(* session an earlier recording left behind (RecordedSession), which the   *)
(* program reaches from the first by five messages.                        *)
(*                                                                         *)
(* The variables h_... and n_in are history: the actions write them, only  *)
(* the properties read them.  The locals of a function are reset when it   *)
(* returns.                                                                *)
(*                                                                         *)
(* The message classifier (is_note_event, is_note_on, is_note_off,         *)
(* get_note, get_channel) is also run on its own, in ClassifierSpec, on    *)
(* every message of at most MaxLen bytes over Bytes; cl_data and cl_out    *)
(* are the message and the results, and the sampler leaves them alone.     *)
(*                                                                         *)
(* The 72-EDO transformer of src/code/edo72/edo72.rs is a second program,  *)
(* run in EdoSpec: its input callback (transform_message, one message at a *)
(* time) and its output thread, joined by a channel.  Its three maps are   *)
(* functions on the set of their keys.  e_held, e_open and e_moved are     *)
(* history.  The callback is given a message only while the channel holds  *)
(* fewer than MaxQueued.                                                   *)
(***************************************************************************)
EXTENDS Integers, Sequences, FiniteSets, TLC

VARIABLES
  recording, clip, record_start, last_normal_note,  \* SamplerState
  state_lock,        \* holder of the Mutex<SamplerState>
  playback_gen,      \* the AtomicU64 generation counter
  tx_sample,         \* channel of Command to the sample thread
  tx_immediate,      \* channel of messages to the immediate thread
  immediate_out,     \* the pass-through sink: count and last message sent
  cb_pc, cb_data,    \* the input callback: position and message in hand
  st_pc,             \* the sample thread: position
  my_gen, loop_clip, \* run_sample_thread locals
  loop_start, idx, active_notes,   \* play_loop locals
  remaining, sleep_for, sleep_left, \* interruptible_sleep
  notes_left,        \* send_all_notes_off: notes still to iterate
  sample_out,        \* the loop sink: last message sent on it
  \* history, read by the properties only
  n_in,              \* number of messages delivered to the callback
  h_pending,         \* normal messages delivered and not yet on the sink
  h_note,            \* last normal note event handled: <<age, data>>
  h_open, h_back, h_clock, h_lookback, h_session,  \* the recording session
  h_last_ctl,        \* last of Stop / Trigger completely handled
  h_frozen, h_trig_gen, h_triggers, h_trig,        \* what each Trigger froze
  h_handled,         \* number of Stop / Trigger note-ons completely handled
  h_last_frozen,     \* the clip the last Trigger handled froze
  h_sounding, h_offs, h_stale, h_cancelled, h_inst, \* the playback instance
  h_slices,          \* sleep slices the instance completed on a stale epoch
  h_copy,            \* the clip as the instance copied it
  h_stale_ev,        \* the clip event the instance sent on a stale epoch
  \* the message classifier on its own
  cl_data,           \* the message given to the classifier
  cl_out,            \* what the classifier functions returned for it
  \* the 72-EDO transformer of src/code/edo72/edo72.rs
  ongoing_notes,     \* input note -> the output (channel, note) it sounds
  ongoing_shifts,    \* held shift key -> its shift value
  pitch_class_shifts, \* pitch class -> the shift its last note-on fixed
  edo_tx,            \* channel of messages to the output thread
  e_held,            \* history: regular input notes on and not yet off
  e_open,            \* history: output (channel, note) on and not yet off
  e_moved            \* history: the last regular note-off silenced an
                     \* output other than the one the current settings give

vars == <<recording, clip, record_start, last_normal_note, state_lock,
          playback_gen, tx_sample, tx_immediate, immediate_out, cb_pc, cb_data,
          st_pc, my_gen, loop_clip, loop_start, idx, active_notes, remaining,
          sleep_for, sleep_left, notes_left, sample_out, n_in, h_pending,
          h_note,
          h_open, h_back, h_clock, h_lookback, h_session, h_last_ctl,
          h_frozen, h_trig_gen, h_triggers, h_trig, h_handled,
          h_last_frozen, h_sounding, h_offs,
          h_stale, h_cancelled, h_inst, h_slices, h_copy,
          h_stale_ev, cl_data, cl_out,
          ongoing_notes, ongoing_shifts, pitch_class_shifts, edo_tx,
          e_held, e_open, e_moved>>

session_vars == <<recording, clip, record_start, last_normal_note>>
callback_vars == <<cb_pc, cb_data>>
input_hist == <<n_in, h_pending>>
sample_vars == <<st_pc, my_gen, loop_clip, loop_start, idx, active_notes,
                 remaining, sleep_for, sleep_left, notes_left, sample_out>>
session_hist == <<h_note, h_open, h_back, h_clock, h_lookback, h_session>>
trigger_hist == <<h_last_ctl, h_frozen, h_trig_gen, h_triggers, h_handled,
                  h_last_frozen>>
instance_hist == <<h_trig, h_sounding, h_offs, h_stale, h_cancelled, h_inst,
                   h_slices, h_copy, h_stale_ev>>
classifier_vars == <<cl_data, cl_out>>
edo_vars == <<ongoing_notes, ongoing_shifts, pitch_class_shifts, edo_tx,
              e_held, e_open, e_moved>>
sampler_vars == <<state_lock, playback_gen, tx_sample, immediate_out,
                 callback_vars, sample_vars, input_hist, session_hist,
                 trigger_hist, instance_hist>>

-----------------------------------------------------------------------------
(* Program constants *)
TOP_BFLAT == 106
TOP_B == 107
TOP_C == 108
LOOKBACK_MS == 50
TRIGGER_SLEEP_MS == 3

\* src/code/edo72/edo72.rs
SHIFT_IN_12_EDO == -5
LOWEST_A == 21
MIN_CHANNEL == 1
MIN_NOTE == 28
EDO_OVER_12 == 6
OFFSET_OCTAVE_START == 97
OFFSET_ZERO_NOTE == 102

(* Bounds of the model *)
MaxInputs == 3     \* messages delivered to the callback in one run
Horizon == 52      \* elapsed times are exact below it (> LOOKBACK_MS)

MaxLen == 3        \* longest message given to the classifier on its own

MaxQueued == 1     \* the transformer's callback waits while its channel holds this many

Ticks == {25}      \* amounts by which the clock advances in one step

(* The messages the input delivers *)
NoteOnMsg == <<144, 60, 100>>
NoteOffMsg == <<128, 60, 0>>
NoteOn2Msg == <<145, 62, 100>>   \* channel 1; only in the recorded clip
StopKey == <<144, 106, 100>>
RecordKey == <<144, 107, 100>>
TriggerKey == <<144, 108, 100>>
RecordKeyUp == <<128, 107, 0>>
ClockMsg == <<248>>
Msgs == {NoteOnMsg, NoteOffMsg, StopKey, RecordKey, TriggerKey, RecordKeyUp,
         ClockMsg}

\* The bytes of the messages given to the classifier on its own: data bytes
\* (0, 1, 60, 107, 127) and status bytes (note-off and note-on on channels 0,
\* 1 and 15, a control change, the timing clock)
Bytes == {0, 1, 60, 107, 127, 128, 129, 144, 159, 176, 248}
Messages == UNION {[1..n -> Bytes] : n \in 0..MaxLen}

None == <<>>
Some(x) == <<x>>
\* HashMap::new(): a map is a function on the set of its keys
EmptyMap == [k \in {} |-> 0]
Min(a, b) == IF a <= b THEN a ELSE b
Bump(a, d) == IF a + d >= Horizon THEN Horizon ELSE a + d
BumpOpt(o, d) == IF o = None THEN None ELSE Some(Bump(o[1], d))

-----------------------------------------------------------------------------
(* Message classifier *)
HiNibble(b) == (b \div 16) * 16
LoNibble(b) == b % 16

is_note_event(data) ==
  IF Len(data) = 0 THEN FALSE
  ELSE LET status == HiNibble(data[1]) IN status = 128 \/ status = 144

get_note(data) ==
  IF Len(data) >= 2 /\ is_note_event(data) THEN Some(data[2]) ELSE None

get_channel(data) ==
  IF Len(data) # 0 THEN Some(LoNibble(data[1])) ELSE None

is_note_on(data) ==
  IF Len(data) >= 3
  THEN LET status == HiNibble(data[1]) IN status = 144 /\ data[3] > 0
  ELSE FALSE

\* is_note_off without the note-on of velocity 0
is_note_off_strict(data) ==
  IF Len(data) >= 3
  THEN LET status == HiNibble(data[1]) IN status = 128
  ELSE FALSE

is_note_off(data) ==
  IF Len(data) >= 3
  THEN LET status == HiNibble(data[1])
       IN status = 128 \/ (status = 144 /\ data[3] = 0)
  ELSE FALSE

-----------------------------------------------------------------------------
\* SamplerState::new()
FreshSession ==
  /\ clip = <<>>
  /\ last_normal_note = None
  /\ h_note = None /\ h_lookback = None /\ h_session = <<>>

\* The session as an earlier recording left it, long ago: a note-on caught by
\* lookback, a second note-on in the same millisecond, the first note's
\* note-off 25 ms later, then the Record key again.
RecordedSession ==
  /\ clip = <<[data |-> NoteOnMsg, offset |-> 0],
              [data |-> NoteOn2Msg, offset |-> 0],
              [data |-> NoteOffMsg, offset |-> 25]>>
  /\ last_normal_note = Some([time |-> Horizon, data |-> NoteOffMsg])
  /\ h_note = Some([time |-> Horizon, data |-> NoteOffMsg])
  /\ h_lookback = Some(NoteOnMsg)
  /\ h_session = <<[data |-> NoteOn2Msg, offset |-> 0],
                   [data |-> NoteOffMsg, offset |-> 25]>>

SamplerInit ==
  /\ FreshSession \/ RecordedSession
  /\ recording = FALSE /\ record_start = None
  /\ state_lock = "free"
  /\ playback_gen = 0
  /\ tx_sample = <<>> /\ tx_immediate = <<>>
  /\ immediate_out = [n |-> 0, last |-> None]
  /\ cb_pc = "idle" /\ cb_data = <<>>
  /\ st_pc = "recv"
  /\ my_gen = 0 /\ loop_clip = <<>>
  /\ loop_start = 0 /\ idx = 1 /\ active_notes = {}
  /\ remaining = 0 /\ sleep_for = "event" /\ sleep_left = 0
  /\ notes_left = {}
  /\ sample_out = None
  /\ n_in = 0 /\ h_pending = <<>>
  /\ h_open = FALSE /\ h_back = 0 /\ h_clock = 0
  /\ h_last_ctl = "none"
  /\ h_frozen = <<>> /\ h_trig_gen = 0 /\ h_triggers = <<>>
  /\ h_trig = [gen |-> 0, clip |-> <<>>]
  /\ h_sounding = {} /\ h_offs = <<>> /\ h_stale = 0
  /\ h_cancelled = FALSE /\ h_inst = 0
  /\ h_handled = 0 /\ h_last_frozen = <<>>
  /\ h_slices = 0 /\ h_copy = <<>> /\ h_stale_ev = None

\* the transformer as main() starts it: three empty maps, nothing sent
EdoIdle ==
  /\ ongoing_notes = EmptyMap
  /\ ongoing_shifts = EmptyMap
  /\ pitch_class_shifts = EmptyMap
  /\ edo_tx = <<>>
  /\ e_held = {} /\ e_open = {} /\ e_moved = FALSE

\* the sampler as main() starts it; the classifier and the transformer are
\* given nothing
Init ==
  /\ SamplerInit
  /\ cl_data = <<>> /\ cl_out = None
  /\ EdoIdle

-----------------------------------------------------------------------------
(* Session state machine *)
\* stop_recording that also empties the clip
stop_recording_clears ==
  /\ recording' = FALSE
  /\ record_start' = None
  /\ clip' = <<>>
  /\ UNCHANGED last_normal_note

\* stop_recording that leaves record_start set
stop_recording_keeps_start ==
  /\ recording' = FALSE
  /\ UNCHANGED <<record_start, clip, last_normal_note>>

stop_recording ==
  /\ recording' = FALSE
  /\ record_start' = None
  /\ UNCHANGED <<clip, last_normal_note>>

\* start_recording with the window test strict (< instead of <=)
start_recording_strict ==
  /\ recording' = TRUE
  /\ IF /\ last_normal_note # None
        /\ last_normal_note[1].time < LOOKBACK_MS
     THEN /\ record_start' = Some(last_normal_note[1].time)
          /\ clip' = <<[data |-> last_normal_note[1].data, offset |-> 0]>>
     ELSE /\ record_start' = Some(0)
          /\ clip' = <<>>
  /\ UNCHANGED last_normal_note

\* start_recording that gives the captured note its age as offset
start_recording_elapsed ==
  /\ recording' = TRUE
  /\ IF /\ last_normal_note # None
        /\ last_normal_note[1].time <= LOOKBACK_MS
     THEN /\ record_start' = Some(last_normal_note[1].time)
          /\ clip' = <<[data |-> last_normal_note[1].data,
                        offset |-> last_normal_note[1].time]>>
     ELSE /\ record_start' = Some(0)
          /\ clip' = <<>>
  /\ UNCHANGED last_normal_note

start_recording ==
  /\ recording' = TRUE
  /\ IF /\ last_normal_note # None
        /\ last_normal_note[1].time <= LOOKBACK_MS
     THEN /\ record_start' = Some(last_normal_note[1].time)
          /\ clip' = <<[data |-> last_normal_note[1].data, offset |-> 0]>>
     ELSE /\ record_start' = Some(0)
          /\ clip' = <<>>
  /\ UNCHANGED last_normal_note

handle_record_toggle ==
  IF recording THEN stop_recording ELSE start_recording

\* handle_normal_event that records note events only
handle_normal_event_notes_only(data) ==
  /\ tx_immediate' = Append(tx_immediate, data)
  /\ last_normal_note' =
       IF is_note_event(data) THEN Some([time |-> 0, data |-> data])
       ELSE last_normal_note
  /\ clip' =
       IF recording /\ record_start # None /\ is_note_event(data)
       THEN Append(clip, [data |-> data, offset |-> record_start[1]])
       ELSE clip
  /\ UNCHANGED <<recording, record_start>>

\* handle_normal_event that forwards only while not recording
handle_normal_event_mute(data) ==
  /\ tx_immediate' = IF recording THEN tx_immediate
                     ELSE Append(tx_immediate, data)
  /\ last_normal_note' =
       IF is_note_event(data) THEN Some([time |-> 0, data |-> data])
       ELSE last_normal_note
  /\ clip' =
       IF recording /\ record_start # None
       THEN Append(clip, [data |-> data, offset |-> record_start[1]])
       ELSE clip
  /\ UNCHANGED <<recording, record_start>>

handle_normal_event(data) ==
  /\ tx_immediate' = Append(tx_immediate, data)
  /\ last_normal_note' =
       IF is_note_event(data) THEN Some([time |-> 0, data |-> data])
       ELSE last_normal_note
  /\ clip' =
       IF recording /\ record_start # None
       THEN Append(clip, [data |-> data, offset |-> record_start[1]])
       ELSE clip
  /\ UNCHANGED <<recording, record_start>>

-----------------------------------------------------------------------------
(* The input callback *)
Dispatch(data) ==
  LET note == get_note(data)
      is_on == is_note_on(data)
  IN IF note # None /\ note[1] = TOP_BFLAT /\ is_on THEN "stop_lock"
     ELSE IF note # None /\ note[1] = TOP_B /\ is_on THEN "record_lock"
     ELSE IF note # None /\ note[1] = TOP_C /\ is_on THEN "trigger_lock"
     ELSE "normal_lock"

\* a note-on of one of the three reserved notes, as the interface states it
IsControlNoteOn(m) ==
  /\ Len(m) = 3
  /\ HiNibble(m[1]) = 144
  /\ m[2] \in {TOP_BFLAT, TOP_B, TOP_C}
  /\ m[3] > 0

\* A message arrives and the callback classifies it.
Deliver(m) ==
  /\ cb_pc = "idle"
  /\ n_in < MaxInputs
  /\ (recording /\ record_start # None /\ Dispatch(m) = "normal_lock")
       => record_start[1] < Horizon
  /\ cb_data' = m
  /\ cb_pc' = Dispatch(m)
  /\ n_in' = n_in + 1
  /\ h_pending' = IF IsControlNoteOn(m) THEN h_pending
                  ELSE Append(h_pending, m)
  /\ UNCHANGED <<edo_vars, classifier_vars, session_vars, state_lock, playback_gen, tx_sample,
                 tx_immediate, immediate_out, sample_vars, session_hist,
                 trigger_hist, instance_hist>>

Locked(pc) ==
  CASE pc = "stop_lock" -> "stop_locked"
    [] pc = "record_lock" -> "record_locked"
    [] pc = "trigger_lock" -> "trigger_locked"
    [] pc = "normal_lock" -> "normal_locked"

\* state.lock().unwrap() in the callback and in handle_stop / handle_trigger
CallbackLock ==
  /\ cb_pc \in {"stop_lock", "record_lock", "trigger_lock", "normal_lock"}
  /\ state_lock = "free"
  /\ state_lock' = "callback"
  /\ cb_pc' = Locked(cb_pc)
  /\ UNCHANGED <<edo_vars, classifier_vars, session_vars, playback_gen, tx_sample, tx_immediate,
                 immediate_out, cb_data, sample_vars, input_hist, session_hist,
                 trigger_hist, instance_hist>>

\* handle_stop that also forgets the last normal note
HandleStopLocked_forget ==
  /\ cb_pc = "stop_locked"
  /\ recording' = FALSE /\ record_start' = None
  /\ last_normal_note' = None
  /\ UNCHANGED clip
  /\ state_lock' = "free"
  /\ cb_pc' = "stop_inc"
  /\ h_open' = FALSE /\ h_back' = 0 /\ h_clock' = 0
  /\ UNCHANGED <<edo_vars, classifier_vars, playback_gen, tx_sample, tx_immediate,
                 immediate_out, cb_data, sample_vars, input_hist, h_note,
                 h_lookback, h_session, trigger_hist, instance_hist>>

\* handle_stop, the block that holds the lock
HandleStopLocked ==
  /\ cb_pc = "stop_locked"
  /\ IF recording THEN stop_recording ELSE UNCHANGED session_vars
  /\ state_lock' = "free"
  /\ cb_pc' = "stop_inc"
  /\ h_open' = FALSE /\ h_back' = 0 /\ h_clock' = 0
  /\ UNCHANGED <<edo_vars, classifier_vars, playback_gen, tx_sample, tx_immediate, immediate_out,
                 cb_data, sample_vars, input_hist, h_note, h_lookback,
                 h_session, trigger_hist, instance_hist>>

\* handle_stop that resets the counter instead of incrementing it
HandleStopInc_reset ==
  /\ cb_pc = "stop_inc"
  /\ playback_gen' = 0
  /\ cb_pc' = "stop_send"
  /\ UNCHANGED <<edo_vars, classifier_vars, session_vars, state_lock, tx_sample,
                 tx_immediate, immediate_out, cb_data, sample_vars, input_hist,
                 session_hist, trigger_hist, instance_hist>>

\* gen.fetch_add(1) of handle_stop
HandleStopInc ==
  /\ cb_pc = "stop_inc"
  /\ playback_gen' = playback_gen + 1
  /\ cb_pc' = "stop_send"
  /\ UNCHANGED <<edo_vars, classifier_vars, session_vars, state_lock, tx_sample, tx_immediate,
                 immediate_out, cb_data, sample_vars, input_hist, session_hist,
                 trigger_hist, instance_hist>>

\* tx.send(Command::Stop) of handle_stop, and the return
HandleStopSend ==
  /\ cb_pc = "stop_send"
  /\ tx_sample' = Append(tx_sample, "Stop")
  /\ cb_pc' = "idle" /\ cb_data' = <<>>
  /\ h_last_ctl' = "stop"
  /\ h_handled' = h_handled + 1 /\ h_last_frozen' = <<>>
  /\ UNCHANGED <<edo_vars, classifier_vars, session_vars, state_lock, playback_gen, tx_immediate,
                 immediate_out, sample_vars, input_hist, session_hist,
                 h_frozen, h_trig_gen, h_triggers, instance_hist>>

\* handle_record_toggle under the callback's lock
HandleRecordToggle ==
  /\ cb_pc = "record_locked"
  /\ handle_record_toggle
  /\ state_lock' = "free"
  /\ cb_pc' = "idle" /\ cb_data' = <<>>
  /\ h_open' = ~h_open
  /\ IF h_open
     THEN /\ h_back' = 0 /\ h_clock' = 0
          /\ UNCHANGED <<h_lookback, h_session>>
     ELSE LET near == h_note # None /\ h_note[1].time <= LOOKBACK_MS
          IN /\ h_lookback' = IF near THEN Some(h_note[1].data) ELSE None
             /\ h_back' = IF near THEN h_note[1].time ELSE 0
             /\ h_clock' = 0
             /\ h_session' = <<>>
  /\ UNCHANGED <<edo_vars, classifier_vars, playback_gen, tx_sample, tx_immediate, immediate_out,
                 sample_vars, input_hist, h_note, trigger_hist,
                 instance_hist>>

\* handle_trigger, the block that holds the lock
HandleTriggerLocked ==
  /\ cb_pc = "trigger_locked"
  /\ IF recording THEN stop_recording ELSE UNCHANGED session_vars
  /\ state_lock' = "free"
  /\ cb_pc' = "trigger_inc"
  /\ h_open' = FALSE /\ h_back' = 0 /\ h_clock' = 0
  /\ h_frozen' = clip
  /\ UNCHANGED <<edo_vars, classifier_vars, playback_gen, tx_sample, tx_immediate, immediate_out,
                 cb_data, sample_vars, input_hist, h_note, h_lookback,
                 h_session, h_last_ctl, h_trig_gen, h_triggers, h_handled,
                 h_last_frozen, instance_hist>>

\* gen.fetch_add(1) of handle_trigger
HandleTriggerInc ==
  /\ cb_pc = "trigger_inc"
  /\ playback_gen' = playback_gen + 1
  /\ cb_pc' = "trigger_send"
  /\ h_trig_gen' = playback_gen + 1
  /\ UNCHANGED <<edo_vars, classifier_vars, session_vars, state_lock, tx_sample, tx_immediate,
                 immediate_out, cb_data, sample_vars, input_hist, session_hist,
                 h_last_ctl, h_frozen, h_triggers, h_handled, h_last_frozen,
                 instance_hist>>

\* tx.send(Command::StartLoop) of handle_trigger, and the return
HandleTriggerSend ==
  /\ cb_pc = "trigger_send"
  /\ tx_sample' = Append(tx_sample, "StartLoop")
  /\ cb_pc' = "idle" /\ cb_data' = <<>>
  /\ h_last_ctl' = "trigger"
  /\ h_triggers' = Append(h_triggers, [gen |-> h_trig_gen, clip |-> h_frozen])
  /\ h_frozen' = <<>> /\ h_trig_gen' = 0
  /\ h_handled' = h_handled + 1 /\ h_last_frozen' = h_frozen
  /\ UNCHANGED <<edo_vars, classifier_vars, session_vars, state_lock, playback_gen, tx_immediate,
                 immediate_out, sample_vars, input_hist, session_hist,
                 instance_hist>>

\* handle_normal_event under the callback's lock
HandleNormalEvent ==
  /\ cb_pc = "normal_locked"
  /\ handle_normal_event(cb_data)
  /\ state_lock' = "free"
  /\ cb_pc' = "idle" /\ cb_data' = <<>>
  /\ h_note' = IF Len(cb_data) > 0 /\ HiNibble(cb_data[1]) \in {128, 144}
               THEN Some([time |-> 0, data |-> cb_data])
               ELSE h_note
  /\ h_session' = IF h_open
                  THEN Append(h_session,
                              [data |-> cb_data, offset |-> h_back + h_clock])
                  ELSE h_session
  /\ UNCHANGED <<edo_vars, classifier_vars, playback_gen, tx_sample, immediate_out, sample_vars,
                 input_hist, h_open, h_back, h_clock, h_lookback, trigger_hist,
                 instance_hist>>

\* run_immediate_thread: one message from the channel to the sink
ImmediateSend ==
  /\ tx_immediate # <<>>
  /\ immediate_out' = [n |-> immediate_out.n + 1,
                        last |-> Some(Head(tx_immediate))]
  /\ h_pending' = IF h_pending = <<>> THEN <<>> ELSE Tail(h_pending)
  /\ UNCHANGED n_in
  /\ tx_immediate' = Tail(tx_immediate)
  /\ UNCHANGED <<edo_vars, classifier_vars, session_vars, state_lock, playback_gen, tx_sample,
                 callback_vars, sample_vars, session_hist,
                 trigger_hist, instance_hist>>

-----------------------------------------------------------------------------
(* The sample thread: run_sample_thread and play_loop *)
copy_clip ==
  [i \in 1..Len(clip) |-> [data |-> clip[i].data, offset |-> clip[i].offset]]

\* loop_duration of play_loop: the offset of the last event
loop_duration ==
  IF loop_clip = <<>> THEN 0 ELSE loop_clip[Len(loop_clip)].offset

\* TrackNotes with the note-off branch forgotten
TrackNotes_no_remove(active, data) ==
  LET note == get_note(data)
      channel == get_channel(data)
  IN IF note # None /\ channel # None /\ is_note_on(data)
     THEN active \cup {<<channel[1], note[1]>>}
     ELSE active

\* TrackNotes with the note-on branch forgotten
TrackNotes_no_insert(active, data) ==
  LET note == get_note(data)
      channel == get_channel(data)
  IN IF note # None /\ channel # None /\ is_note_off(data)
     THEN active \ {<<channel[1], note[1]>>}
     ELSE active

\* the active-note bookkeeping of play_loop for one message
TrackNotes(active, data) ==
  LET note == get_note(data)
      channel == get_channel(data)
  IN IF note # None /\ channel # None
     THEN IF is_note_on(data) THEN active \cup {<<channel[1], note[1]>>}
          ELSE IF is_note_off(data) THEN active \ {<<channel[1], note[1]>>}
          ELSE active
     ELSE active

\* what the loop sink hears of one message: which notes sound after it
Hear(sounding, data) ==
  IF Len(data) = 3 /\ HiNibble(data[1]) = 144 /\ data[3] > 0
  THEN sounding \cup {<<LoNibble(data[1]), data[2]>>}
  ELSE IF Len(data) = 3 /\ (HiNibble(data[1]) = 128 \/ HiNibble(data[1]) = 144)
  THEN sounding \ {<<LoNibble(data[1]), data[2]>>}
  ELSE sounding

\* rx.recv() of run_sample_thread and the match on the command
SampleRecv ==
  /\ st_pc = "recv"
  /\ tx_sample # <<>>
  /\ tx_sample' = Tail(tx_sample)
  /\ IF Head(tx_sample) = "StartLoop"
     THEN /\ st_pc' = "load_gen"
          /\ h_trig' = Head(h_triggers)
          /\ h_triggers' = Tail(h_triggers)
     ELSE UNCHANGED <<st_pc, h_trig, h_triggers>>
  /\ UNCHANGED <<edo_vars, classifier_vars, session_vars, state_lock, playback_gen, tx_immediate,
                 immediate_out, callback_vars, my_gen, loop_clip, loop_start,
                 idx, active_notes, remaining, sleep_for, sleep_left,
                 notes_left, sample_out, input_hist, session_hist, h_last_ctl,
                 h_frozen, h_trig_gen, h_handled, h_last_frozen, h_sounding,
                 h_offs, h_stale, h_cancelled, h_inst, h_slices, h_copy,
                 h_stale_ev>>

\* let my_gen = gen.load()
SampleLoadGen ==
  /\ st_pc = "load_gen"
  /\ my_gen' = playback_gen
  /\ st_pc' = "lock"
  /\ UNCHANGED <<edo_vars, classifier_vars, session_vars, state_lock, playback_gen, tx_sample,
                 tx_immediate, immediate_out, callback_vars, loop_clip,
                 loop_start, idx, active_notes, remaining, sleep_for,
                 sleep_left, notes_left, sample_out, input_hist, session_hist,
                 trigger_hist, instance_hist>>

\* state.lock().unwrap() of run_sample_thread
SampleLock ==
  /\ st_pc = "lock"
  /\ state_lock = "free"
  /\ state_lock' = "sample"
  /\ st_pc' = "copy"
  /\ UNCHANGED <<edo_vars, classifier_vars, session_vars, playback_gen, tx_sample, tx_immediate,
                 immediate_out, callback_vars, my_gen, loop_clip, loop_start,
                 idx, active_notes, remaining, sleep_for, sleep_left,
                 notes_left, sample_out, input_hist, session_hist, trigger_hist,
                 instance_hist>>

\* run_sample_thread that keeps the session lock while play_loop runs
SampleCopy_keeps_lock ==
  /\ st_pc = "copy"
  /\ IF copy_clip = <<>>
     THEN /\ st_pc' = "recv"
          /\ state_lock' = "free"
          /\ my_gen' = 0 /\ loop_clip' = <<>>
          /\ h_trig' = [gen |-> 0, clip |-> <<>>]
          /\ UNCHANGED <<active_notes, h_sounding, h_offs, h_stale,
                         h_cancelled, h_inst, h_slices, h_copy,
                         h_stale_ev>>
     ELSE /\ st_pc' = "loop_top"
          /\ UNCHANGED state_lock
          /\ loop_clip' = copy_clip
          /\ active_notes' = {}
          /\ h_sounding' = {} /\ h_offs' = <<>> /\ h_stale' = 0
          /\ h_cancelled' = FALSE /\ h_inst' = h_inst + 1
          /\ h_slices' = 0 /\ h_copy' = clip /\ h_stale_ev' = None
          /\ UNCHANGED <<my_gen, h_trig>>
  /\ UNCHANGED <<edo_vars, classifier_vars, session_vars, playback_gen, tx_sample,
                 tx_immediate, immediate_out, callback_vars, loop_start, idx,
                 remaining, sleep_for, sleep_left, notes_left, sample_out,
                 input_hist, session_hist, trigger_hist>>

\* copy_clip under the lock, the unlock, the empty-clip test and the entry
\* of play_loop
SampleCopy ==
  /\ st_pc = "copy"
  /\ state_lock' = "free"
  /\ IF copy_clip = <<>>
     THEN /\ st_pc' = "recv"
          /\ my_gen' = 0 /\ loop_clip' = <<>>
          /\ h_trig' = [gen |-> 0, clip |-> <<>>]
          /\ UNCHANGED <<active_notes, h_sounding, h_offs, h_stale,
                         h_cancelled, h_inst, h_slices, h_copy,
                         h_stale_ev>>
     ELSE /\ st_pc' = "loop_top"
          /\ loop_clip' = copy_clip
          /\ active_notes' = {}
          /\ h_sounding' = {} /\ h_offs' = <<>> /\ h_stale' = 0
          /\ h_cancelled' = FALSE /\ h_inst' = h_inst + 1
          /\ h_slices' = 0 /\ h_copy' = clip /\ h_stale_ev' = None
          /\ UNCHANGED <<my_gen, h_trig>>
  /\ UNCHANGED <<edo_vars, classifier_vars, session_vars, playback_gen, tx_sample, tx_immediate,
                 immediate_out, callback_vars, loop_start, idx, remaining,
                 sleep_for, sleep_left, notes_left, sample_out, input_hist,
                 session_hist, trigger_hist>>

\* top of the loop of play_loop: loop_start = Instant::now()
PlayLoopTop ==
  /\ st_pc = "loop_top"
  /\ loop_start' = 0
  /\ idx' = 1
  /\ st_pc' = "check"
  /\ UNCHANGED <<edo_vars, classifier_vars, session_vars, state_lock, playback_gen, tx_sample,
                 tx_immediate, immediate_out, callback_vars, my_gen,
                 loop_clip, active_notes, remaining, sleep_for, sleep_left,
                 notes_left, sample_out, input_hist, session_hist, trigger_hist,
                 instance_hist>>

\* PlayCheck without the generation test before the event
PlayCheck_no_test ==
  /\ st_pc = "check"
  /\ IF loop_clip[idx].offset > loop_start
     THEN /\ remaining' = loop_clip[idx].offset - loop_start
          /\ sleep_for' = "event"
          /\ st_pc' = "sleep_check"
     ELSE /\ st_pc' = "send"
          /\ UNCHANGED <<remaining, sleep_for>>
  /\ UNCHANGED <<edo_vars, classifier_vars, session_vars, state_lock, playback_gen, tx_sample,
                 tx_immediate, immediate_out, callback_vars, my_gen,
                 loop_clip, loop_start, idx, active_notes, sleep_left,
                 notes_left, sample_out, input_hist, session_hist,
                 trigger_hist, instance_hist>>

\* PlayCheck that sends the event without waiting for its offset
PlayCheck_no_wait ==
  /\ st_pc = "check"
  /\ IF playback_gen # my_gen
     THEN /\ st_pc' = "notes_off"
          /\ notes_left' = active_notes
          /\ h_cancelled' = TRUE
     ELSE /\ st_pc' = "send"
          /\ UNCHANGED <<notes_left, h_cancelled>>
  /\ UNCHANGED <<edo_vars, classifier_vars, session_vars, state_lock, playback_gen,
                 tx_sample, tx_immediate, immediate_out, callback_vars, my_gen,
                 loop_clip, loop_start, idx, active_notes, remaining,
                 sleep_for, sleep_left, sample_out, input_hist, session_hist,
                 trigger_hist, h_trig, h_sounding, h_offs, h_stale, h_inst,
                 h_slices, h_copy,
                 h_stale_ev>>

\* the generation test before an event, and the computation of its wait
PlayCheck ==
  /\ st_pc = "check"
  /\ IF playback_gen # my_gen
     THEN /\ st_pc' = "notes_off"
          /\ notes_left' = active_notes
          /\ h_cancelled' = TRUE
          /\ UNCHANGED <<remaining, sleep_for>>
     ELSE /\ IF loop_clip[idx].offset > loop_start
             THEN /\ remaining' = loop_clip[idx].offset - loop_start
                  /\ sleep_for' = "event"
                  /\ st_pc' = "sleep_check"
             ELSE /\ st_pc' = "send"
                  /\ UNCHANGED <<remaining, sleep_for>>
          /\ UNCHANGED <<notes_left, h_cancelled>>
  /\ UNCHANGED <<edo_vars, classifier_vars, session_vars, state_lock, playback_gen, tx_sample,
                 tx_immediate, immediate_out, callback_vars, my_gen,
                 loop_clip, loop_start, idx, active_notes, sleep_left,
                 sample_out, input_hist, session_hist, trigger_hist, h_trig,
                 h_sounding, h_offs, h_stale, h_inst, h_slices, h_copy,
                 h_stale_ev>>

\* interruptible_sleep without the generation test before each slice
SleepCheck_no_test ==
  /\ st_pc = "sleep_check"
  /\ IF remaining > 0
     THEN /\ sleep_left' = Min(remaining, TRIGGER_SLEEP_MS)
          /\ st_pc' = "sleeping"
     ELSE /\ st_pc' = IF sleep_for = "event" THEN "send" ELSE "loop_top"
          /\ UNCHANGED sleep_left
  /\ UNCHANGED <<edo_vars, classifier_vars, session_vars, state_lock, playback_gen,
                 tx_sample, tx_immediate, immediate_out, callback_vars, my_gen,
                 loop_clip, loop_start, idx, active_notes, remaining,
                 sleep_for, notes_left, sample_out, input_hist, session_hist,
                 trigger_hist, instance_hist>>

\* interruptible_sleep: the loop test, the generation test, thread::sleep
SleepCheck ==
  /\ st_pc = "sleep_check"
  /\ IF remaining > 0
     THEN IF playback_gen # my_gen
          THEN /\ st_pc' = "notes_off"
               /\ notes_left' = active_notes
               /\ h_cancelled' = TRUE
               /\ UNCHANGED sleep_left
          ELSE /\ sleep_left' = Min(remaining, TRIGGER_SLEEP_MS)
               /\ st_pc' = "sleeping"
               /\ UNCHANGED <<notes_left, h_cancelled>>
     ELSE /\ st_pc' = IF sleep_for = "event" THEN "send" ELSE "loop_top"
          /\ UNCHANGED <<sleep_left, notes_left, h_cancelled>>
  /\ UNCHANGED <<edo_vars, classifier_vars, session_vars, state_lock, playback_gen, tx_sample,
                 tx_immediate, immediate_out, callback_vars, my_gen,
                 loop_clip, loop_start, idx, active_notes, remaining,
                 sleep_for, sample_out, input_hist, session_hist, trigger_hist,
                 h_trig, h_sounding, h_offs, h_stale, h_inst, h_slices, h_copy,
                 h_stale_ev>>

\* thread::sleep(to_sleep) returns; remaining -= to_sleep
SleepWake ==
  /\ st_pc = "sleeping"
  /\ sleep_left = 0
  /\ remaining' = remaining - Min(remaining, TRIGGER_SLEEP_MS)
  /\ st_pc' = "sleep_check"
  /\ h_slices' = IF playback_gen # my_gen THEN Min(h_slices + 1, 2)
                 ELSE h_slices
  /\ UNCHANGED <<edo_vars, classifier_vars, session_vars, state_lock, playback_gen, tx_sample,
                 tx_immediate, immediate_out, callback_vars, my_gen,
                 loop_clip, loop_start, idx, active_notes, sleep_for,
                 sleep_left, notes_left, sample_out, input_hist, session_hist,
                 trigger_hist, h_trig, h_sounding, h_offs, h_stale,
                 h_cancelled, h_inst, h_copy,
                 h_stale_ev>>

\* PlaySend that reads the event from the live clip when it has one there
PlaySend_live ==
  LET msg == IF idx <= Len(clip) THEN clip[idx] ELSE loop_clip[idx]
  IN /\ st_pc = "send"
     /\ active_notes' = TrackNotes(active_notes, msg.data)
     /\ sample_out' = Some([inst |-> h_inst, kind |-> "clip",
                            data |-> msg.data])
     /\ IF idx < Len(loop_clip)
        THEN idx' = idx + 1 /\ st_pc' = "check"
        ELSE idx' = idx /\ st_pc' = "pass_end"
     /\ h_sounding' = Hear(h_sounding, msg.data)
     /\ h_stale' = IF playback_gen # my_gen THEN Min(h_stale + 1, 2)
                   ELSE h_stale
     /\ h_stale_ev' = IF playback_gen # my_gen THEN Some(msg.data)
                      ELSE h_stale_ev
     /\ UNCHANGED <<edo_vars, classifier_vars, session_vars, state_lock, playback_gen,
                    tx_sample, tx_immediate, immediate_out, callback_vars,
                    my_gen, loop_clip, loop_start, remaining, sleep_for,
                    sleep_left, notes_left, input_hist, session_hist,
                    trigger_hist, h_trig, h_offs, h_cancelled, h_inst,
                    h_slices, h_copy>>

\* the note bookkeeping and conn.send(&msg.data) of one clip event
PlaySend ==
  /\ st_pc = "send"
  /\ active_notes' = TrackNotes(active_notes, loop_clip[idx].data)
  /\ sample_out' = Some([inst |-> h_inst, kind |-> "clip",
                         data |-> loop_clip[idx].data])
  /\ IF idx < Len(loop_clip)
     THEN idx' = idx + 1 /\ st_pc' = "check"
     ELSE idx' = idx /\ st_pc' = "pass_end"
  /\ h_sounding' = Hear(h_sounding, loop_clip[idx].data)
  /\ h_stale' = IF playback_gen # my_gen THEN Min(h_stale + 1, 2) ELSE h_stale
  /\ h_stale_ev' = IF playback_gen # my_gen THEN Some(loop_clip[idx].data)
                   ELSE h_stale_ev
  /\ UNCHANGED <<edo_vars, classifier_vars, session_vars, state_lock, playback_gen, tx_sample,
                 tx_immediate, immediate_out, callback_vars, my_gen,
                 loop_clip, loop_start, remaining, sleep_for, sleep_left,
                 notes_left, input_hist, session_hist, trigger_hist, h_trig,
                 h_offs, h_cancelled, h_inst, h_slices, h_copy>>

\* after the last event of a pass: wait out the rest of loop_duration
PlayPassEnd ==
  /\ st_pc = "pass_end"
  /\ IF loop_start < loop_duration
     THEN /\ remaining' = loop_duration - loop_start
          /\ sleep_for' = "gap"
          /\ st_pc' = "sleep_check"
     ELSE /\ st_pc' = "loop_top"
          /\ UNCHANGED <<remaining, sleep_for>>
  /\ UNCHANGED <<edo_vars, classifier_vars, session_vars, state_lock, playback_gen, tx_sample,
                 tx_immediate, immediate_out, callback_vars, my_gen,
                 loop_clip, loop_start, idx, active_notes, sleep_left,
                 notes_left, sample_out, input_hist, session_hist, trigger_hist,
                 instance_hist>>

\* send_all_notes_off: one iteration, in the set's arbitrary order
SendNoteOff(n) ==
  /\ st_pc = "notes_off"
  /\ n \in notes_left
  /\ sample_out' = Some([inst |-> h_inst, kind |-> "off",
                         data |-> <<128 + n[1], n[2], 0>>])
  /\ notes_left' = notes_left \ {n}
  /\ h_offs' = Append(h_offs, <<128 + n[1], n[2], 0>>)
  /\ UNCHANGED <<edo_vars, classifier_vars, session_vars, state_lock, playback_gen, tx_sample,
                 tx_immediate, immediate_out, callback_vars, st_pc, my_gen,
                 loop_clip, loop_start, idx, active_notes, remaining,
                 sleep_for, sleep_left, input_hist, session_hist, trigger_hist,
                 h_trig, h_sounding, h_stale, h_cancelled, h_inst, h_slices,
                 h_copy,
                 h_stale_ev>>

\* play_loop that returns without waiting for send_all_notes_off to finish
PlayReturn_early ==
  /\ st_pc = "notes_off"
  /\ st_pc' = "recv"
  /\ my_gen' = 0 /\ loop_clip' = <<>>
  /\ loop_start' = 0 /\ idx' = 1 /\ active_notes' = {}
  /\ remaining' = 0 /\ sleep_for' = "event"
  /\ h_trig' = [gen |-> 0, clip |-> <<>>]
  /\ h_sounding' = {} /\ h_offs' = <<>> /\ h_stale' = 0
  /\ h_cancelled' = FALSE /\ h_slices' = 0 /\ h_copy' = <<>>
  /\ h_stale_ev' = None
  /\ UNCHANGED <<edo_vars, classifier_vars, session_vars, state_lock, playback_gen,
                 tx_sample, tx_immediate, immediate_out, callback_vars,
                 sleep_left, notes_left, sample_out, input_hist, session_hist,
                 trigger_hist, h_inst>>

\* send_all_notes_off is over: play_loop returns to run_sample_thread and
\* its locals are dropped
PlayReturn ==
  /\ st_pc = "notes_off"
  /\ notes_left = {}
  /\ st_pc' = "recv"
  /\ my_gen' = 0 /\ loop_clip' = <<>>
  /\ loop_start' = 0 /\ idx' = 1 /\ active_notes' = {}
  /\ remaining' = 0 /\ sleep_for' = "event"
  /\ h_trig' = [gen |-> 0, clip |-> <<>>]
  /\ h_sounding' = {} /\ h_offs' = <<>> /\ h_stale' = 0
  /\ h_cancelled' = FALSE /\ h_slices' = 0 /\ h_copy' = <<>>
  /\ h_stale_ev' = None
  /\ UNCHANGED <<edo_vars, classifier_vars, session_vars, state_lock, playback_gen, tx_sample,
                 tx_immediate, immediate_out, callback_vars, sleep_left,
                 notes_left, sample_out, input_hist, session_hist,
                 trigger_hist, h_inst>>

-----------------------------------------------------------------------------
\* positions of play_loop at which loop_start is alive
InPass == {"check", "sleep_check", "sleeping", "send", "pass_end"}

\* d milliseconds pass
Tick(d) ==
  /\ ~ /\ cb_pc \in {"normal_lock", "normal_locked"}
       /\ recording /\ record_start # None
       /\ record_start[1] + d >= Horizon
  /\ record_start' = BumpOpt(record_start, d)
  /\ last_normal_note' =
       IF last_normal_note = None THEN None
       ELSE Some([last_normal_note[1] EXCEPT !.time = Bump(@, d)])
  /\ loop_start' = IF st_pc \in InPass THEN Bump(loop_start, d) ELSE loop_start
  /\ sleep_left' = IF sleep_left > d THEN sleep_left - d ELSE 0
  /\ h_note' = IF h_note = None THEN None
               ELSE Some([h_note[1] EXCEPT !.time = Bump(@, d)])
  /\ h_clock' = IF h_open THEN Bump(h_clock, d) ELSE h_clock
  /\ UNCHANGED <<edo_vars, classifier_vars, recording, clip, state_lock, playback_gen, tx_sample,
                 tx_immediate, immediate_out, callback_vars, st_pc, my_gen,
                 loop_clip, idx, active_notes, remaining, sleep_for,
                 notes_left, sample_out, input_hist, h_open, h_back, h_lookback,
                 h_session, trigger_hist, instance_hist>>

Next ==
  \/ \E m \in Msgs : Deliver(m)
  \/ CallbackLock
  \/ HandleStopLocked
  \/ HandleStopInc
  \/ HandleStopSend
  \/ HandleRecordToggle
  \/ HandleTriggerLocked
  \/ HandleTriggerInc
  \/ HandleTriggerSend
  \/ HandleNormalEvent
  \/ ImmediateSend
  \/ SampleRecv
  \/ SampleLoadGen
  \/ SampleLock
  \/ SampleCopy
  \/ PlayLoopTop
  \/ PlayCheck
  \/ SleepCheck
  \/ SleepWake
  \/ PlaySend
  \/ PlayPassEnd
  \/ \E n \in notes_left : SendNoteOff(n)
  \/ PlayReturn
  \/ \E d \in Ticks : Tick(d)

Spec == Init /\ [][Next]_vars

\* The same program with the scheduling the threads are given: a thread that
\* can take a step eventually takes it, a callback that has begun runs on,
\* and time passes.
Fairness ==
  /\ WF_vars(CallbackLock)
  /\ WF_vars(HandleStopLocked) /\ WF_vars(HandleStopInc)
  /\ WF_vars(HandleStopSend) /\ WF_vars(HandleRecordToggle)
  /\ WF_vars(HandleTriggerLocked) /\ WF_vars(HandleTriggerInc)
  /\ WF_vars(HandleTriggerSend) /\ WF_vars(HandleNormalEvent)
  /\ WF_vars(ImmediateSend)
  /\ WF_vars(SampleRecv) /\ WF_vars(SampleLoadGen) /\ WF_vars(SampleLock)
  /\ WF_vars(SampleCopy) /\ WF_vars(PlayLoopTop) /\ WF_vars(PlayCheck)
  /\ WF_vars(SleepCheck) /\ WF_vars(SleepWake) /\ WF_vars(PlaySend)
  /\ WF_vars(PlayPassEnd) /\ WF_vars(\E n \in notes_left : SendNoteOff(n))
  /\ WF_vars(PlayReturn)
  /\ WF_vars(\E d \in Ticks : Tick(d))

FairSpec == Spec /\ Fairness

-----------------------------------------------------------------------------
(* The message classifier on its own: one message of at most MaxLen bytes is
   given to the five functions, and then to the callback's normal-event
   path if the callback would take it there. *)
ClassifierInit ==
  /\ SamplerInit /\ FreshSession
  /\ cl_data \in Messages
  /\ cl_out = None
  /\ EdoIdle

\* the five classifier functions applied to the message
Classify ==
  /\ cl_out = None
  /\ cl_out' = Some([is_note_event |-> is_note_event(cl_data),
                     is_note_on |-> is_note_on(cl_data),
                     is_note_off |-> is_note_off(cl_data),
                     note |-> get_note(cl_data),
                     channel |-> get_channel(cl_data)])
  /\ UNCHANGED <<cl_data, session_vars, tx_immediate, sampler_vars, edo_vars>>

\* the callback's last branch: handle_normal_event on the message
ClassifierHandle ==
  /\ cl_out # None
  /\ tx_immediate = <<>>
  /\ Dispatch(cl_data) = "normal_lock"
  /\ handle_normal_event(cl_data)
  /\ UNCHANGED <<edo_vars, classifier_vars, sampler_vars>>

ClassifierNext ==
  \/ Classify
  \/ ClassifierHandle

ClassifierSpec == ClassifierInit /\ [][ClassifierNext]_vars

-----------------------------------------------------------------------------
(* The 72-EDO transformer, src/code/edo72/edo72.rs *)

\* HashMap::insert, HashMap::remove
map_insert(m, k, v) == [x \in DOMAIN m \cup {k} |-> IF x = k THEN v ELSE m[x]]
map_remove(m, k) == [x \in DOMAIN m \ {k} |-> m[x]]

\* the casts `as i8` and `as u8` of an integer
AsI8(x) == IF x % 256 >= 128 THEN (x % 256) - 256 ELSE x % 256
AsU8(x) == x % 256

RECURSIVE SumShifts(_, _)
\* shifts.values().map(|s| s.shift_value as i16).sum() over the keys ks
SumShifts(shifts, ks) ==
  IF ks = {} THEN 0
  ELSE LET k == CHOOSE x \in ks : TRUE
       IN shifts[k] + SumShifts(shifts, ks \ {k})

\* None when no shift key is held, else the sum of the held shift values
current_total_shift ==
  IF DOMAIN ongoing_shifts = {} THEN None
  ELSE Some(SumShifts(ongoing_shifts, DOMAIN ongoing_shifts))

\* (channel, note) for an input note; shifts is pitch_class_shifts as the
\* caller left it.  div_euclid and rem_euclid by 12 are \div and %.
edo72_instruction(original_note, shifts) ==
  LET normalized == original_note - LOWEST_A + SHIFT_IN_12_EDO
      channel_offset == normalized \div 12
      note_offset == normalized % 12
      channel == MIN_CHANNEL + channel_offset
      pitch_class == original_note % 12
      shift == IF pitch_class \in DOMAIN shifts THEN shifts[pitch_class] ELSE 0
      note == MIN_NOTE + note_offset * EDO_OVER_12 + shift
  IN <<channel, note>>

\* the two tests handle_offset_control and handle_regular_note both start with
edo_is_note_on(status, velocity) == status = 144 /\ velocity > 0
edo_is_note_off(status, velocity) ==
  status = 128 \/ (status = 144 /\ velocity = 0)

\* a held shift key is added, a released one removed; nothing is sent
handle_offset_control(status, velocity, input_note) ==
  [results |-> <<>>,
   ongoing_notes |-> ongoing_notes,
   ongoing_shifts |->
     IF edo_is_note_on(status, velocity)
     THEN map_insert(ongoing_shifts, input_note,
                     AsI8(AsI8(input_note) - AsI8(OFFSET_ZERO_NOTE)))
     ELSE IF edo_is_note_off(status, velocity)
     THEN map_remove(ongoing_shifts, input_note)
     ELSE ongoing_shifts,
   pitch_class_shifts |-> pitch_class_shifts]

\* handle_regular_note whose note-off is always computed from the current
\* settings, never looked up in ongoing_notes
handle_regular_note_recompute(status, velocity, original_note) ==
  LET on == edo_is_note_on(status, velocity)
      off == edo_is_note_off(status, velocity)
      total_shift == current_total_shift
      shifts == IF on /\ total_shift # None
                THEN map_insert(pitch_class_shifts, original_note % 12,
                                AsI8(total_shift[1]))
                ELSE pitch_class_shifts
      new_channel == edo72_instruction(original_note, shifts)[1]
      new_note == edo72_instruction(original_note, shifts)[2]
      output_in_range == /\ new_channel >= 0 /\ new_channel <= 15
                         /\ new_note >= 0 /\ new_note <= 127
      has_old == original_note \in DOMAIN ongoing_notes
      old == ongoing_notes[original_note]
      silence == /\ on /\ has_old
                 /\ \/ ~output_in_range
                    \/ old.output_channel # AsU8(new_channel)
                    \/ old.output_note # AsU8(new_note)
  IN [results |->
        IF on
        THEN (IF silence
              THEN << <<128 + old.output_channel, old.output_note, 0>> >>
              ELSE <<>>)
             \o (IF output_in_range
                 THEN << <<144 + AsU8(new_channel), AsU8(new_note),
                           velocity>> >>
                 ELSE <<>>)
        ELSE IF off /\ output_in_range
        THEN << <<128 + AsU8(new_channel), AsU8(new_note), velocity>> >>
        ELSE <<>>,
      ongoing_notes |->
        IF on /\ output_in_range
        THEN map_insert(ongoing_notes, original_note,
                        [output_channel |-> AsU8(new_channel),
                         output_note |-> AsU8(new_note)])
        ELSE IF off THEN map_remove(ongoing_notes, original_note)
        ELSE ongoing_notes,
      ongoing_shifts |-> ongoing_shifts,
      pitch_class_shifts |-> shifts]

\* A regular note.  A note-on first fixes its pitch class's shift when shift
\* keys are held, silences the output the input note still sounds if the new
\* output differs or is out of range, and records and sends the new output
\* if it is in range.  A note-off sends the note-off of the recorded output
\* and forgets it; with no record it sends one for the current output.
\* 0x80 | c and 0x90 | c are 128 + c and 144 + c for a channel c in 0..15.
handle_regular_note(status, velocity, original_note) ==
  LET on == edo_is_note_on(status, velocity)
      off == edo_is_note_off(status, velocity)
      total_shift == current_total_shift
      shifts == IF on /\ total_shift # None
                THEN map_insert(pitch_class_shifts, original_note % 12,
                                AsI8(total_shift[1]))
                ELSE pitch_class_shifts
      new_channel == edo72_instruction(original_note, shifts)[1]
      new_note == edo72_instruction(original_note, shifts)[2]
      output_in_range == /\ new_channel >= 0 /\ new_channel <= 15
                         /\ new_note >= 0 /\ new_note <= 127
      has_old == original_note \in DOMAIN ongoing_notes
      old == ongoing_notes[original_note]
      silence == /\ on /\ has_old
                 /\ \/ ~output_in_range
                    \/ old.output_channel # AsU8(new_channel)
                    \/ old.output_note # AsU8(new_note)
  IN [results |->
        IF on
        THEN (IF silence
              THEN << <<128 + old.output_channel, old.output_note, 0>> >>
              ELSE <<>>)
             \o (IF output_in_range
                 THEN << <<144 + AsU8(new_channel), AsU8(new_note),
                           velocity>> >>
                 ELSE <<>>)
        ELSE IF off /\ has_old
        THEN << <<128 + old.output_channel, old.output_note, velocity>> >>
        ELSE IF off /\ output_in_range
        THEN << <<128 + AsU8(new_channel), AsU8(new_note), velocity>> >>
        ELSE <<>>,
      ongoing_notes |->
        IF on /\ output_in_range
        THEN map_insert(ongoing_notes, original_note,
                        [output_channel |-> AsU8(new_channel),
                         output_note |-> AsU8(new_note)])
        ELSE IF off THEN map_remove(ongoing_notes, original_note)
        ELSE ongoing_notes,
      ongoing_shifts |-> ongoing_shifts,
      pitch_class_shifts |-> shifts]

\* what is sent for a message, and the three maps after it
transform_message(message) ==
  LET pass == [results |-> <<message>>,
               ongoing_notes |-> ongoing_notes,
               ongoing_shifts |-> ongoing_shifts,
               pitch_class_shifts |-> pitch_class_shifts]
      status == message[1] - (message[1] % 16)
  IN IF Len(message) < 2 THEN pass
     ELSE IF Len(message) < 3 \/ ~(status = 128 \/ status = 144) THEN pass
     ELSE IF message[2] >= OFFSET_OCTAVE_START
     THEN handle_offset_control(status, message[3], message[2])
     ELSE handle_regular_note(status, message[3], message[2])

\* a note-on / note-off of a key below the offset control octave
RegularNote(message) ==
  /\ Len(message) >= 3
  /\ message[1] - (message[1] % 16) \in {128, 144}
  /\ message[2] < OFFSET_OCTAVE_START
RegularNoteOn(message) ==
  /\ RegularNote(message)
  /\ edo_is_note_on(message[1] - (message[1] % 16), message[3])
RegularNoteOff(message) ==
  /\ RegularNote(message)
  /\ edo_is_note_off(message[1] - (message[1] % 16), message[3])

\* the messages the transformer is given: note-on and note-off of three
\* regular keys (13 maps below channel 0; 13 and 61 share a pitch class; 60
\* shifted by 6 and 61 unshifted share an output) and of the shift keys,
\* a note-on of velocity 0, a note-on on another input channel, and two
\* messages that are not notes
EdoNotes == {13, 60, 61}
ShiftKeys == {108, 126, 127}
EdoMsgs ==
  {<<144, n, 100>> : n \in EdoNotes \cup ShiftKeys}
    \cup {<<128, n, 0>> : n \in EdoNotes \cup ShiftKeys}
    \cup {<<144, 60, 0>>, <<145, 61, 100>>, <<176, 7, 100>>, <<248>>}

\* the input callback: transform_message, then every result on the channel
InputCallback(message) ==
  /\ Len(edo_tx) < MaxQueued
  /\ LET t == transform_message(message) IN
       /\ ongoing_notes' = t.ongoing_notes
       /\ ongoing_shifts' = t.ongoing_shifts
       /\ pitch_class_shifts' = t.pitch_class_shifts
       /\ edo_tx' = edo_tx \o t.results
  /\ e_held' = IF RegularNoteOn(message) THEN e_held \cup {message[2]}
               ELSE IF RegularNoteOff(message) THEN e_held \ {message[2]}
               ELSE e_held
  /\ e_moved' = IF RegularNoteOff(message)
                THEN /\ message[2] \in DOMAIN ongoing_notes
                     /\ <<ongoing_notes[message[2]].output_channel,
                           ongoing_notes[message[2]].output_note>>
                          # edo72_instruction(message[2], pitch_class_shifts)
                ELSE e_moved
  /\ UNCHANGED e_open
  /\ UNCHANGED <<session_vars, tx_immediate, sampler_vars, classifier_vars>>

\* run_output_thread: one message received and sent on the output port
run_output_thread ==
  /\ edo_tx # <<>>
  /\ LET data == Head(edo_tx)
         key == <<data[1] % 16, data[2]>>
     IN e_open' =
             IF Len(data) >= 3 /\ data[1] - (data[1] % 16) = 144 /\ data[3] > 0
             THEN e_open \cup {key}
             ELSE IF Len(data) >= 3 /\ data[1] - (data[1] % 16) \in {128, 144}
             THEN e_open \ {key}
             ELSE e_open
  /\ edo_tx' = Tail(edo_tx)
  /\ UNCHANGED <<ongoing_notes, ongoing_shifts, pitch_class_shifts, e_held,
                 e_moved>>
  /\ UNCHANGED <<session_vars, tx_immediate, sampler_vars, classifier_vars>>

EdoInit ==
  /\ SamplerInit /\ FreshSession
  /\ cl_data = <<>> /\ cl_out = None
  /\ EdoIdle

EdoNext ==
  \/ \E message \in EdoMsgs : InputCallback(message)
  \/ run_output_thread

EdoSpec == EdoInit /\ [][EdoNext]_vars

-----------------------------------------------------------------------------
(* Properties *)

\* the positions of the sample thread inside play_loop
InPlayLoop == InPass \cup {"loop_top", "notes_off"}

\* the safety note-off send_all_notes_off sends for an active note
NoteOffOf(n) == <<128 + n[1], n[2], 0>>

\* C1: when play_loop returns on a generation mismatch it has sent exactly
\* one note-off [0x80|channel, note, 0] for every (channel, note) it left
\* sounding on the loop sink, and no safety note-off for any other note.
C1_SafetyNoteOffs ==
  /\ \A i \in DOMAIN h_offs : \E n \in h_sounding : h_offs[i] = NoteOffOf(n)
  /\ \A i, j \in DOMAIN h_offs : h_offs[i] = h_offs[j] => i = j
  /\ (st_pc = "notes_off" /\ notes_left = {})
       => \A n \in h_sounding : \E i \in DOMAIN h_offs : h_offs[i] = NoteOffOf(n)

\* C1 witness: an instance about to return with two notes silenced
C1_Witness ==
  /\ st_pc = "notes_off" /\ notes_left = {}
  /\ h_cancelled
  /\ Cardinality(h_sounding) = 2 /\ Len(h_offs) = 2

\* C2: once a Stop has been handled and no Trigger is handled after it,
\* eventually no playback instance is running and no clip event is sent any
\* more: if from some moment on the last of Stop / Trigger handled is a Stop,
\* then from some moment on the sample thread is outside play_loop.
C2_StopCancelsPlayback ==
  <>[](h_last_ctl = "stop") => <>[](st_pc \notin InPlayLoop)

\* C3 as stated: no clip event is sent on the loop sink while the counter
\* differs from the epoch the instance captured.
C3_NoStaleSend == h_stale = 0

\* C3 as amended: an instance sends at most one clip event while the counter
\* differs from its epoch (the one whose generation test came before the
\* change).
C3_AtMostOneStaleSend == h_stale <= 1

\* C3 witness: an instance that did send a clip event on a stale epoch
C3_Witness == st_pc \in InPlayLoop /\ h_stale = 1 /\ playback_gen # my_gen

\* C4: the clip an instance plays and the epoch it holds are the clip as its
\* Trigger froze it and the counter value that Trigger's increment produced.
C4_PlaysWhatTriggerFroze ==
  st_pc \in InPlayLoop => (loop_clip = h_trig.clip /\ my_gen = h_trig.gen)

\* a message that carries one of the three reserved note numbers
CarriesControlNote(m) ==
  /\ Len(m) >= 2
  /\ HiNibble(m[1]) \in {128, 144}
  /\ m[2] \in {TOP_BFLAT, TOP_B, TOP_C}

\* C5: no message carrying a reserved note number, note-on or note-off, is
\* sent to the pass-through sink, appended to the clip or stored as
\* last_normal_note.
C5_ControlNotesIntercepted ==
  /\ \A i \in DOMAIN tx_immediate : ~CarriesControlNote(tx_immediate[i])
  /\ immediate_out.last # None => ~CarriesControlNote(immediate_out.last[1])
  /\ \A i \in DOMAIN clip : ~CarriesControlNote(clip[i].data)
  /\ last_normal_note # None => ~CarriesControlNote(last_normal_note[1].data)

\* C6: ToggleRecord while Idle sets recording and replaces the clip: with a
\* normal note event handled at most LOOKBACK_MS earlier, the clip is that one
\* event at offset zero and record_start is that event's time; otherwise the
\* clip is empty and record_start is the time of the toggle.
C6_ToggleRecordLookback ==
  [][(~h_open /\ h_open') =>
       /\ recording'
       /\ IF h_note # None /\ h_note[1].time <= LOOKBACK_MS
          THEN /\ clip' = <<[data |-> h_note[1].data, offset |-> 0]>>
               /\ record_start' = Some(h_note[1].time)
          ELSE /\ clip' = <<>>
               /\ record_start' = Some(0)]_vars

\* C6 witness: recording just started on a note handled exactly 50 ms before
C6_Witness ==
  /\ recording /\ cb_pc = "idle"
  /\ record_start = Some(LOOKBACK_MS)
  /\ Len(clip) = 1 /\ clip[1].offset = 0
  /\ h_note # None /\ h_note[1].time = LOOKBACK_MS

NonDecreasing(c) ==
  \A i, j \in DOMAIN c : i <= j => c[i].offset <= c[j].offset

\* C7 as stated: the clip's offsets are non-decreasing, and the first offset
\* of a non-empty clip is zero if and only if its recording began with a
\* lookback capture.
C7_OffsetsAndLookbackIff ==
  /\ NonDecreasing(clip)
  /\ clip # <<>> => (clip[1].offset = 0 <=> h_lookback # None)

\* C7 as amended: the clip's offsets are non-decreasing, and the first offset
\* of a non-empty clip is zero if its recording began with a lookback capture.
C7_OffsetsAndLookback ==
  /\ NonDecreasing(clip)
  /\ (clip # <<>> /\ h_lookback # None) => clip[1].offset = 0

\* C7 witness: a recording that began with a lookback capture 25 ms before the
\* toggle and has taken one more event, 25 ms after it
C7_Witness ==
  /\ recording /\ h_lookback # None
  /\ Len(clip) = 2 /\ clip[1].offset = 0 /\ clip[2].offset = 50

\* C8: the clip of a recording session is the lookback capture, if any,
\* followed by the normal messages handled during the session, in arrival
\* order, each at offset = arrival time - record_start; so it has N entries,
\* or N + 1 with a lookback capture.
C8_ClipIsSession ==
  /\ clip = (IF h_lookback # None
             THEN <<[data |-> h_lookback[1], offset |-> 0]>>
             ELSE <<>>) \o h_session
  /\ Len(clip) = Len(h_session) + (IF h_lookback # None THEN 1 ELSE 0)

\* C8 witness: a session without lookback, ended, that took a non-note message
\* 25 ms after its start
C8_Witness ==
  /\ ~recording /\ ~h_open /\ cb_pc = "idle"
  /\ h_lookback = None
  /\ h_session = <<[data |-> ClockMsg, offset |-> 25]>>

\* the pass-through sink receives a message
PassThroughSend == immediate_out'.n # immediate_out.n

C10_ClipFrozen ==
  [][/\ (recording /\ ~recording') => clip' = clip
     /\ (~recording /\ clip' # clip) => (cb_pc = "record_locked" /\ recording')
    ]_vars

\* C10 witness: a recording of this run ended by Stop, its clip kept
C10_Witness ==
  /\ ~recording /\ h_last_ctl = "stop" /\ cb_pc = "idle"
  /\ h_lookback = None /\ Len(clip) = 1

\* a clip event of the running instance is the last message on the loop sink,
\* and it is the first event of the clip the instance plays
EmitsFirstEvent ==
  /\ st_pc \in InPlayLoop
  /\ sample_out = Some([inst |-> h_inst, kind |-> "clip",
                        data |-> loop_clip[1].data])

\* C11: when handle_trigger returns the session is Idle; and if from some
\* moment on the last of Stop / Trigger handled is a Trigger that froze a
\* non-empty clip, then at some moment a playback instance holds that clip
\* and has just emitted its first event (for a Trigger handled while a loop
\* plays, this is the restart).
C11_TriggerStartsPlayback ==
  /\ [][(cb_pc = "trigger_send" /\ cb_pc' = "idle") => ~recording']_vars
  /\ <>[](h_last_ctl = "trigger" /\ h_last_frozen # <<>>)
       => <>(EmitsFirstEvent /\ loop_clip = h_last_frozen)

\* the positions of the callback inside handle_stop
StopPcs == {"stop_lock", "stop_locked", "stop_inc", "stop_send"}

\* rx.recv() of the sample thread takes a Command::Stop
RecvStop ==
  /\ st_pc = "recv" /\ tx_sample # <<>> /\ Head(tx_sample) = "Stop"
  /\ tx_sample' = Tail(tx_sample)

\* C12: a step of handle_stop taken while the session is Idle leaves
\* recording, clip, record_start and last_normal_note unchanged and puts
\* nothing on either sink; the sample thread, waiting for commands, takes a
\* Command::Stop without sending anything and goes on waiting; and as long
\* as every message delivered was a Stop or a Trigger completely handled, the
\* session is Idle, the pass-through sink has received nothing, and the loop
\* sink has received nothing unless a playback instance was started.
C12_StopIdempotent ==
  /\ [](h_handled = n_in =>
          /\ ~recording /\ record_start = None
          /\ tx_immediate = <<>> /\ immediate_out.n = 0
          /\ (h_inst = 0 => sample_out = None))
  /\ [][/\ (cb_pc \in StopPcs /\ cb_pc' # cb_pc /\ ~recording) =>
             /\ session_vars' = session_vars
             /\ tx_immediate' = tx_immediate
             /\ immediate_out' = immediate_out
             /\ sample_out' = sample_out
        /\ RecvStop => (st_pc' = "recv" /\ sample_out' = sample_out)
       ]_vars

\* C12 witness: three Stops in a row, the session Idle with its recorded clip
\* and no playback instance ever started, all taken by the sample thread
C12_Witness ==
  /\ h_handled = 3 /\ n_in = 3 /\ playback_gen = 3
  /\ h_last_ctl = "stop" /\ h_inst = 0 /\ clip # <<>>
  /\ cb_pc = "idle" /\ st_pc = "recv" /\ tx_sample = <<>>
  /\ sample_out = None /\ immediate_out.n = 0

\* a playback instance whose epoch is no longer the generation counter
StaleInstance == st_pc \in InPlayLoop /\ playback_gen # my_gen

\* C13: a playback instance whose epoch has stopped being the counter
\* eventually returns to run_sample_thread; while its epoch is stale it
\* completes at most one sleep slice, and no slice is longer than
\* TRIGGER_SLEEP_MS, so it waits neither for the end of the gap before the
\* next event nor for the end of the pass.
C13_BoundedCancel ==
  /\ [](h_slices <= 1)
  /\ [](st_pc = "sleeping" => sleep_left <= TRIGGER_SLEEP_MS)
  /\ StaleInstance ~> (st_pc = "recv")

\* C13 witness: an instance cancelled in the middle of a gap: it completed
\* one slice on a stale epoch and returns with most of the gap still to wait
C13_Witness ==
  /\ st_pc = "notes_off" /\ h_cancelled
  /\ h_slices = 1
  /\ remaining > TRIGGER_SLEEP_MS

\* C14: the loop sink receives a message only from the one playback instance
\* that is inside play_loop, at its send or in its send_all_notes_off; a new
\* instance begins only when the sample thread is outside play_loop and the
\* previous instance has sent every safety note-off; so the instances of the
\* messages on the loop sink never go back to an earlier one.
C14_OneInstanceAtATime ==
  /\ [](sample_out # None => sample_out[1].inst <= h_inst)
  /\ [][/\ sample_out' # sample_out =>
             /\ st_pc \in {"send", "notes_off"}
             /\ h_inst' = h_inst
             /\ sample_out'[1].inst = h_inst
             /\ sample_out # None => sample_out[1].inst <= sample_out'[1].inst
        /\ h_inst' # h_inst =>
             /\ h_inst' = h_inst + 1
             /\ st_pc = "copy" /\ st_pc' = "loop_top"
             /\ notes_left = {}
       ]_vars

\* C14 witness: the second instance is in its first pass and has sent nothing
\* yet; the last message on the loop sink is a safety note-off of the first
C14_Witness ==
  /\ h_inst = 2 /\ st_pc \in InPass
  /\ sample_out # None
  /\ sample_out[1].inst = 1 /\ sample_out[1].kind = "off"

\* C15: a Trigger handled while the clip is empty starts no playback: the
\* sample thread is never inside play_loop for a StartLoop whose Trigger
\* found the clip empty.
C15_EmptyTriggerNoPlayback ==
  st_pc \in InPlayLoop => h_trig.clip # <<>>

\* the positions at which the callback waits for the session lock, and those
\* at which it holds it
LockWaitPcs == {"stop_lock", "record_lock", "trigger_lock", "normal_lock"}
LockHeldPcs == {"stop_locked", "record_locked", "trigger_locked",
                "normal_locked"}

\* C16: the sample thread holds the session lock only while it copies the
\* clip, never while it sleeps or sends to the loop sink; the callback holds
\* it only inside its locked block; and every invocation of the callback
\* eventually returns.
C16_NoLockDeadlock ==
  /\ [](state_lock = "sample" <=> st_pc = "copy")
  /\ [](state_lock = "callback" <=> cb_pc \in LockHeldPcs)
  /\ (cb_pc # "idle") ~> (cb_pc = "idle")

\* C16 witness: the callback waits for the lock while the sample thread holds
\* it to copy the clip
C16_Witness ==
  /\ cb_pc \in LockWaitPcs
  /\ state_lock = "sample" /\ st_pc = "copy"

\* C17: for every message of length 1 or 2, is_note_event, is_note_on and
\* is_note_off are false and get_note is None; and no message shorter than 3
\* bytes is stored as last_normal_note (from where lookback capture would
\* take it).
C17_ShortNeverNote ==
  /\ (cl_out # None /\ Len(cl_data) \in {1, 2}) =>
       /\ ~cl_out[1].is_note_event
       /\ ~cl_out[1].is_note_on
       /\ ~cl_out[1].is_note_off
       /\ cl_out[1].note = None
  /\ last_normal_note # None => Len(last_normal_note[1].data) >= 3

\* the status nibble of a message: its first byte without the channel
StatusNibble(data) == data[1] - (data[1] % 16)

\* C18: for every 3-byte message, is_note_on is true iff the status nibble is
\* 0x90 and the velocity is positive, is_note_off is true iff the status
\* nibble is 0x80, or 0x90 with velocity 0; they are never both true, and
\* is_note_event is true iff exactly one of them is.
C18_NoteOnOffExclusive ==
  (cl_out # None /\ Len(cl_data) = 3) =>
    LET on == cl_out[1].is_note_on
        off == cl_out[1].is_note_off
    IN /\ on <=> (StatusNibble(cl_data) = 144 /\ cl_data[3] > 0)
       /\ off <=> \/ StatusNibble(cl_data) = 128
                  \/ StatusNibble(cl_data) = 144 /\ cl_data[3] = 0
       /\ ~(on /\ off)
       /\ cl_out[1].is_note_event <=> (on # off)

\* C18 witness: a note-on of velocity 0 on channel 15, classified as a
\* note-off and as a note event
C18_Witness ==
  /\ cl_data = <<159, 60, 0>>
  /\ cl_out # None
  /\ cl_out[1].is_note_off /\ ~cl_out[1].is_note_on
  /\ cl_out[1].is_note_event

\* C19: from its copy_clip to its return a playback instance plays the clip
\* as it was when copied, whatever happens to the live clip: its clip and its
\* loop duration stay those of the copy, each event it sends is the copy's
\* event at its position, and the position goes through the copy in order,
\* from 1 at the top of each pass to the copy's length.
C19_InstanceOwnsCopy ==
  /\ [](st_pc \in InPlayLoop =>
          /\ loop_clip = h_copy
          /\ loop_duration = h_copy[Len(h_copy)].offset
          /\ idx \in 1..Len(h_copy))
  /\ [][/\ (st_pc \in InPlayLoop /\ st_pc' \in InPlayLoop) => h_copy' = h_copy
        /\ (st_pc = "send" /\ st_pc' # "send") =>
             /\ sample_out' = Some([inst |-> h_inst, kind |-> "clip",
                                    data |-> h_copy[idx].data])
             /\ IF idx < Len(h_copy)
                THEN idx' = idx + 1 /\ st_pc' = "check"
                ELSE st_pc' = "pass_end"
        /\ (st_pc = "loop_top" /\ st_pc' # "loop_top") => idx' = 1
        /\ (st_pc \in InPass /\ st_pc' \in InPass /\ st_pc # "send") =>
             idx' = idx
       ]_vars

\* C19 witness: a recording started 25 ms ago has replaced the live clip by
\* one new event; the instance began a pass after that and has sent the first
\* event of its copy
C19_Witness ==
  /\ st_pc = "check" /\ idx = 2 /\ loop_start = 0
  /\ recording /\ record_start = Some(25)
  /\ Len(clip) = 1 /\ clip # loop_clip
  /\ clip[1].data # loop_clip[1].data
  /\ sample_out = Some([inst |-> h_inst, kind |-> "clip",
                        data |-> loop_clip[1].data])

\* the positions of the callback just after the fetch_add of handle_stop and
\* of handle_trigger
IncDonePcs == {"stop_send", "trigger_send"}

\* C20: the generation counter never decreases; it changes only by the
\* fetch_add of handle_stop or handle_trigger, by exactly one, so it is the
\* number of Stop and Trigger note-ons handled (one more while the handler
\* is between its fetch_add and its return); ToggleRecord, normal events and
\* the sample thread never change it.
C20_GenerationMonotone ==
  /\ [](playback_gen = h_handled + (IF cb_pc \in IncDonePcs THEN 1 ELSE 0))
  /\ [][/\ playback_gen' >= playback_gen
        /\ playback_gen' # playback_gen =>
             /\ playback_gen' = playback_gen + 1
             /\ cb_pc \in {"stop_inc", "trigger_inc"}
             /\ cb_pc' \in IncDonePcs
             /\ st_pc' = st_pc
       ]_vars

\* C20 witness: a Trigger, a Stop and then a ToggleRecord have been handled
\* while a loop played: the counter is 2
C20_Witness ==
  /\ n_in = 3 /\ cb_pc = "idle"
  /\ playback_gen = 2 /\ h_handled = 2
  /\ h_last_ctl = "stop" /\ h_inst = 1 /\ recording

\* C21: in each pass of a playback instance the events of its clip are sent
\* once each in clip order (the position starts at 1, each send sends the
\* event at the position and moves it on by one, and the pass ends after the
\* last); an event is sent only when the time elapsed since the start of the
\* pass has reached its offset; and the next pass starts only when it has
\* reached the loop duration, the offset of the last event.
C21_PassTiming ==
  /\ [](st_pc = "send" => loop_start >= loop_clip[idx].offset)
  /\ [](st_pc = "pass_end" =>
          /\ idx = Len(loop_clip)
          /\ loop_duration = loop_clip[Len(loop_clip)].offset
          /\ loop_start >= loop_duration)
  /\ [][/\ (st_pc = "loop_top" /\ st_pc' # "loop_top") =>
             (st_pc' = "check" /\ idx' = 1 /\ loop_start' = 0)
        /\ (st_pc = "send" /\ st_pc' # "send") =>
             /\ sample_out' = Some([inst |-> h_inst, kind |-> "clip",
                                    data |-> loop_clip[idx].data])
             /\ IF idx < Len(loop_clip)
                THEN idx' = idx + 1 /\ st_pc' = "check"
                ELSE idx' = idx /\ st_pc' = "pass_end"
        /\ (st_pc \in InPass /\ st_pc' = "loop_top") =>
             /\ idx = Len(loop_clip)
             /\ loop_start >= loop_duration
        /\ (st_pc \in InPass /\ st_pc' \in InPass /\ st_pc # "send") =>
             idx' = idx
       ]_vars

\* C21 witness: an uncancelled instance has sent the three events of its
\* clip, the last one 25 ms or more after the start of the pass, and is at
\* the first event of its next pass
C21_Witness ==
  /\ st_pc = "check" /\ idx = 1
  /\ playback_gen = my_gen
  /\ Len(loop_clip) = 3 /\ loop_duration = 25
  /\ sample_out = Some([inst |-> h_inst, kind |-> "clip",
                        data |-> loop_clip[3].data])

\* a 3-byte note-on of positive velocity, as the loop sink takes it
SoundsNote(data) ==
  Len(data) = 3 /\ StatusNibble(data) = 144 /\ data[3] > 0

\* C22: an instance sends at most one clip event after the counter has
\* stopped being its epoch, and nothing but safety note-offs after that one;
\* and when it has sent all its safety note-offs, if that one event was a
\* note-on, the note-off of its (channel, note) is among them.
C22_StaleEventSilenced ==
  /\ h_stale <= 1
  /\ h_stale_ev # None <=> h_stale = 1
  /\ (st_pc = "notes_off" /\ notes_left = {} /\ h_stale_ev # None
        /\ SoundsNote(h_stale_ev[1])) =>
       \E i \in DOMAIN h_offs :
         h_offs[i] = <<128 + (h_stale_ev[1][1] % 16), h_stale_ev[1][2], 0>>

\* C22 witness: the one event sent on a stale epoch was the note-on of note
\* 62 on channel 1, and the instance has sent the note-off of that note
C22_Witness ==
  /\ st_pc = "notes_off" /\ notes_left = {}
  /\ h_stale = 1 /\ h_stale_ev = Some(NoteOn2Msg)
  /\ \E i \in DOMAIN h_offs : h_offs[i] = <<129, 62, 0>>

\* the callback's handle_normal_event runs and returns
NormalEventHandled == cb_pc = "normal_locked" /\ cb_pc' = "idle"

\* C23: recording is true exactly when record_start is set; a normal event
\* handled while recording is appended to the clip, with the time since
\* record_start as its offset, and one handled while Idle leaves the clip as
\* it is.
C23_RecordingIffStart ==
  /\ [](recording <=> record_start # None)
  /\ [][NormalEventHandled =>
          IF recording
          THEN clip' = Append(clip, [data |-> cb_data,
                                      offset |-> record_start[1]])
          ELSE clip' = clip
       ]_vars

\* C23 witness: a recording started without lookback has taken a note-on
\* 25 ms after its start
C23_Witness ==
  /\ recording /\ record_start = Some(25) /\ cb_pc = "idle"
  /\ h_lookback = None
  /\ clip = <<[data |-> NoteOnMsg, offset |-> 25]>>


\* C24: in the 72-EDO transformer, once every regular input note-on has been
\* followed by a note-off of the same input note and the output thread has
\* sent everything the callback queued, no output (channel, note) is left
\* sounding: each output note-on has been followed by an output note-off on
\* the same (channel, note), whatever shift keys were pressed or released
\* in between.  While notes are held, only held input notes have a record in
\* ongoing_notes.
C24_NoStuckOutput ==
  /\ DOMAIN ongoing_notes \subseteq e_held
  /\ (e_held = {} /\ edo_tx = <<>>) => e_open = {}
\* note 61 was sent unshifted as (3, 94); 13, of the same pitch class, was
\* then pressed with shift key 108 held, which moved the pitch class by 6;
\* the note-off of 61 was the last input and silenced (3, 94)
C24_Witness ==
  /\ e_moved
  /\ pitch_class_shifts = [k \in {1} |-> 6]
  /\ DOMAIN ongoing_shifts = {108}
  /\ e_held = {} /\ edo_tx = <<>> /\ e_open = {}
====
